---- MODULE Spec2Model ----
(***************************************************************************)
(* A model of app.py: the Graph token cache (get_graph_token), the retry   *)
(* helpers (gget, gpost), the API-key guard, the drive-id cache, the text  *)
(* extractor dispatch and the Flask routes built on them.                  *)
(*                                                                         *)
(* Time is counted in half-seconds, so that the back-off 1.5 * (i + 1) s   *)
(* of gget/gpost is the integer 3 * (i + 1), and the 60 s freshness margin *)
(* of get_graph_token is Sec(60) = 120.                                    *)
(***************************************************************************)
EXTENDS Integers, Sequences, FiniteSets, TLC

(* ---------------------------------------------------------------------- *)
(* Bounds of the model                                                     *)
(* ---------------------------------------------------------------------- *)
MaxClock == 3          \* idle time and identity-provider latency stop here
NumThreads == 2        \* request threads that may call get_graph_token
MaxPages == 3          \* pages of one listing
MaxFaults == 1         \* retryable answers met by one request

(* ---------------------------------------------------------------------- *)
(* Values                                                                  *)
(* ---------------------------------------------------------------------- *)
Sec(n) == 2 * n        \* n seconds in half-seconds

None == [none |-> TRUE]                 \* Python's None
Absent == -1                            \* a key missing from a JSON object

Threads == 1..NumThreads

\* expires_in values (half-seconds) the identity provider answers with; Absent
\* is a response that has no "expires_in" key.
ExpiresIns == {Sec(30), Sec(61), Sec(120), Absent}

\* how long one POST to the identity provider may take (half-seconds)
Latencies == {0, 1}

\* outcomes of the POST of line 37 and of reading its answer (lines 38-40)
IdpFailures == {"ConnectionError", "HTTPError", "KeyError"}

VARIABLES
    clock,          \* time.time(), in half-seconds
    token_cache,    \* _token_cache: [access_token, exp]
    tpc,            \* per thread: where it is inside get_graph_token
    tnow,           \* per thread: the local `now` (line 27)
    tresp,          \* per thread: the local `tok` = r.json() (line 39)
    tcall,          \* per thread: record of its current/last call (history)
    gpc,            \* gget/gpost: "idle", "attempt", "sleep", "returned", "raised"
    gmeth,          \* "GET" (gget) or "POST" (gpost)
    g_i,            \* the loop variable i of range(5)
    g_r,            \* the local r: the last response received
    gres,           \* what the call returned or raised
    ghist,          \* history of the call: attempts, sleeps, last event
    gatt,           \* history of the last attempt: the token it carried
    API_KEY,        \* os.getenv("API_KEY"), line 15
    ONEDRIVE_USER,  \* os.getenv("ONEDRIVE_USER"), line 16
    drive_cache,    \* _drive_cache["id"], line 79
    hpc,            \* the request being handled: "idle", the upstream call it
                    \* waits for, or "responded"
    req,            \* the request: its route and its x-api-key header
    hloc,           \* the locals of the route function
    resp,           \* the response of the route
    served,         \* history: the pages the remote API has served, in order
    hstat           \* history: guard passed, upstream reached, sleeps

retryVars == <<gpc, gmeth, g_i, g_r, gres, ghist, gatt>>
threadVars == <<tpc, tnow, tresp, tcall>>
envVars == <<API_KEY, ONEDRIVE_USER>>
gwVars == <<API_KEY, ONEDRIVE_USER, drive_cache, hpc, req, hloc, resp, served, hstat>>
vars == <<clock, token_cache, tpc, tnow, tresp, tcall,
          gpc, gmeth, g_i, g_r, gres, ghist, gatt,
          API_KEY, ONEDRIVE_USER, drive_cache, hpc, req, hloc, resp, served, hstat>>

(* ---------------------------------------------------------------------- *)
(* Token cache: get_graph_token (lines 24-42)                              *)
(* ---------------------------------------------------------------------- *)

TOKEN_MARGIN == Sec(60)            \* the "- 60" of line 28
DEFAULT_EXPIRES_IN == Sec(3600)    \* tok.get("expires_in", 3600), line 41

\* A token is the pair of the instant the identity provider issued it and the
\* lifetime it granted; the token's own expiry is their sum.
Token(iss, life) == [iss |-> iss, life |-> life]
OwnExpiry(tok) == tok.iss + tok.life

Truthy(v) == v # None

\* line 24
InitTokenCache == [access_token |-> None, exp |-> 0]

\* faults of line 28: the margin forgotten; the comparison made inclusive
NotNearExpiry_NoMargin(now, exp) == now < exp
NotNearExpiry_Inclusive(now, exp) == now <= exp - TOKEN_MARGIN

\* line 28, second operand: now < _token_cache["exp"] - 60
NotNearExpiry(now, exp) == now < exp - TOKEN_MARGIN

\* line 28: the whole condition of the cache hit
CacheHit(cache, now) == Truthy(cache.access_token) /\ NotNearExpiry(now, cache.exp)

\* line 41: tok.get("expires_in", 3600)
ExpiresIn(e) == IF e = Absent THEN DEFAULT_EXPIRES_IN ELSE e

\* line 41: now + tok.get("expires_in", 3600)
NewExp(now, e) == now + ExpiresIn(e)

\* what a call has done so far: whether it reached the identity provider, how it
\* ended ("hit", "new", "raised"), the value it returned and when
NoCall == [kind |-> "none", called |-> FALSE, tok |-> None, at |-> 0, err |-> "",
           expires_in |-> Absent]

NoResp == [access_token |-> None, expires_in |-> Absent]

AllIdle == (\A u \in Threads : tpc[u] = "idle") /\ gpc = "idle" /\ hpc = "idle"

\* line 27: now = time.time().  With exclusive = TRUE a call starts only when no
\* other call is in progress (calls in sequence).
TokBegin(t, exclusive) ==
    /\ tpc[t] = "idle"
    /\ gpc = "idle" /\ hpc = "idle"
    /\ exclusive => AllIdle
    /\ tnow' = [tnow EXCEPT ![t] = clock]
    /\ tpc' = [tpc EXCEPT ![t] = "check_token"]
    /\ tcall' = [tcall EXCEPT ![t] = NoCall]
    /\ UNCHANGED <<clock, token_cache, tresp, retryVars, gwVars>>

\* line 28, first operand: _token_cache["access_token"] (short-circuit `and`)
TokCheckToken(t) ==
    /\ tpc[t] = "check_token"
    /\ tpc' = [tpc EXCEPT ![t] =
                 IF Truthy(token_cache.access_token) THEN "check_exp" ELSE "post"]
    /\ UNCHANGED <<clock, token_cache, tnow, tresp, tcall, retryVars, gwVars>>

\* line 28, second operand: now < _token_cache["exp"] - 60
TokCheckExp(t) ==
    /\ tpc[t] = "check_exp"
    /\ tpc' = [tpc EXCEPT ![t] =
                 IF NotNearExpiry(tnow[t], token_cache.exp) THEN "return_cached"
                 ELSE "post"]
    /\ UNCHANGED <<clock, token_cache, tnow, tresp, tcall, retryVars, gwVars>>

\* line 29: return _token_cache["access_token"]
TokReturnCached(t) ==
    /\ tpc[t] = "return_cached"
    /\ tpc' = [tpc EXCEPT ![t] = "done"]
    /\ tcall' = [tcall EXCEPT ![t] =
                   [@ EXCEPT !.kind = "hit", !.tok = token_cache.access_token,
                             !.at = clock]]
    /\ UNCHANGED <<clock, token_cache, tnow, tresp, retryVars, gwVars>>

\* lines 37-39: the POST to the identity provider succeeds and r.json() has an
\* access_token; the call took d half-seconds.
TokPostOk(t) ==
    /\ tpc[t] = "post"
    /\ \E d \in Latencies, e \in ExpiresIns :
          /\ clock + d <= MaxClock
          /\ clock' = clock + d
          /\ tresp' = [tresp EXCEPT ![t] =
                         [access_token |-> Token(clock + d, ExpiresIn(e)),
                          expires_in |-> e]]
    /\ tpc' = [tpc EXCEPT ![t] = "store_token"]
    /\ tcall' = [tcall EXCEPT ![t] = [@ EXCEPT !.called = TRUE]]
    /\ UNCHANGED <<token_cache, tnow, retryVars, gwVars>>

\* a fault of lines 37-41: the expiry is written before the POST is known to
\* have succeeded
TokPostFail_StoresExp(t) ==
    /\ tpc[t] = "post"
    /\ \E d \in Latencies, x \in IdpFailures :
          /\ clock + d <= MaxClock
          /\ clock' = clock + d
          /\ tcall' = [tcall EXCEPT ![t] =
                         [@ EXCEPT !.called = TRUE, !.kind = "raised", !.err = x,
                                   !.at = clock + d]]
    /\ token_cache' = [token_cache EXCEPT !.exp = tnow[t] + DEFAULT_EXPIRES_IN]
    /\ tpc' = [tpc EXCEPT ![t] = "done"]
    /\ UNCHANGED <<tnow, tresp, retryVars, gwVars>>

\* lines 37-40 raising: requests.post raises (ConnectionError), raise_for_status
\* raises (HTTPError), or the JSON has no "access_token" (KeyError at line 40).
\* Nothing was assigned yet.
TokPostFail(t) ==
    /\ tpc[t] = "post"
    /\ \E d \in Latencies, x \in IdpFailures :
          /\ clock + d <= MaxClock
          /\ clock' = clock + d
          /\ tcall' = [tcall EXCEPT ![t] =
                         [@ EXCEPT !.called = TRUE, !.kind = "raised", !.err = x,
                                   !.at = clock + d]]
    /\ tpc' = [tpc EXCEPT ![t] = "done"]
    /\ UNCHANGED <<token_cache, tnow, tresp, retryVars, gwVars>>

\* line 40: _token_cache["access_token"] = tok["access_token"]
TokStoreToken(t) ==
    /\ tpc[t] = "store_token"
    /\ token_cache' = [token_cache EXCEPT !.access_token = tresp[t].access_token]
    /\ tpc' = [tpc EXCEPT ![t] = "store_exp"]
    /\ UNCHANGED <<clock, tnow, tresp, tcall, retryVars, gwVars>>

\* line 41: _token_cache["exp"] = now + tok.get("expires_in", 3600)
TokStoreExp(t) ==
    /\ tpc[t] = "store_exp"
    /\ token_cache' = [token_cache EXCEPT !.exp = NewExp(tnow[t], tresp[t].expires_in)]
    /\ tpc' = [tpc EXCEPT ![t] = "return_new"]
    /\ UNCHANGED <<clock, tnow, tresp, tcall, retryVars, gwVars>>

\* line 42: return _token_cache["access_token"]
TokReturnNew(t) ==
    /\ tpc[t] = "return_new"
    /\ tpc' = [tpc EXCEPT ![t] = "done"]
    /\ tcall' = [tcall EXCEPT ![t] =
                   [@ EXCEPT !.kind = "new", !.tok = token_cache.access_token,
                             !.at = clock,
                             !.expires_in = tresp[t].expires_in]]
    /\ UNCHANGED <<clock, token_cache, tnow, tresp, retryVars, gwVars>>

\* the caller has taken the result (or the exception); the frame of the call
\* is gone
TokEnd(t) ==
    /\ tpc[t] = "done"
    /\ tpc' = [tpc EXCEPT ![t] = "idle"]
    /\ tnow' = [tnow EXCEPT ![t] = 0]
    /\ tresp' = [tresp EXCEPT ![t] = NoResp]
    /\ tcall' = [tcall EXCEPT ![t] = NoCall]
    /\ UNCHANGED <<clock, token_cache, retryVars, gwVars>>

\* time passing while no call is in progress
Tick ==
    /\ AllIdle
    /\ clock < MaxClock
    /\ clock' = clock + 1
    /\ UNCHANGED <<token_cache, tpc, tnow, tresp, tcall, retryVars, gwVars>>


(* ---------------------------------------------------------------------- *)
(* get_graph_token as one step of a single-threaded caller                 *)
(* ---------------------------------------------------------------------- *)

\* what the identity provider does with one POST: err = "" is a 200 answer with
\* an access_token and expires_in = e; d is how long the POST took
IdpOk(e, d) == [err |-> "", e |-> e, d |-> d]
IdpFail(x, d) == [err |-> x, e |-> Absent, d |-> d]
IdpOutcomes ==
    {IdpOk(e, d) : e \in ExpiresIns, d \in Latencies}
        \cup {IdpFail(x, d) : x \in IdpFailures, d \in Latencies}

\* lines 26-42 run without interruption: the cache afterwards, the value
\* returned (or the exception raised), whether the provider was called and the
\* time the call took
get_graph_token(cache, now, idp) ==
    IF CacheHit(cache, now)
    THEN [cache |-> cache, ret |-> cache.access_token, err |-> "",
          called |-> FALSE, dt |-> 0]
    ELSE IF idp.err # ""
    THEN [cache |-> cache, ret |-> None, err |-> idp.err,
          called |-> TRUE, dt |-> idp.d]
    ELSE LET tok == Token(now + idp.d, ExpiresIn(idp.e)) IN
         [cache |-> [access_token |-> tok, exp |-> NewExp(now, idp.e)],
          ret |-> tok, err |-> "", called |-> TRUE, dt |-> idp.d]

\* lines 44-45: the Authorization header is built from get_graph_token()
gheaders(cache, now, idp) == get_graph_token(cache, now, idp)

(* ---------------------------------------------------------------------- *)
(* Retry helpers: gget (lines 50-58) and gpost (lines 60-68)               *)
(* ---------------------------------------------------------------------- *)

MAX_ATTEMPTS == 5                  \* range(5), lines 51 and 61

\* lines 53 and 63
RETRYABLE == {429, 500, 502, 503, 504}

\* status codes the upstream answers with
Statuses == {200, 304, 404} \cup RETRYABLE

\* response bodies: always a record with a `kind`
TextBody(n) == [kind |-> "text", n |-> n]
Bodies == {TextBody(1), TextBody(2)}

NoBody == [kind |-> "none"]
Resp(s, b) == [err |-> "", status |-> s, body |-> b]
NetFail == [err |-> "ConnectionError", status |-> 0, body |-> NoBody]
NoResponse == [err |-> "", status |-> 0, body |-> NoBody]

\* everything requests.get / requests.post may do in one attempt
RetryResponses == {Resp(s, b) : s \in Statuses, b \in Bodies} \cup {NetFail}

\* lines 53 and 63: r.status_code in (429, 500, 502, 503, 504)
Retryable(status) == status \in RETRYABLE

\* requests.Response.raise_for_status (lines 56, 58, 66, 68): HTTPError for a
\* 4xx or 5xx status, nothing otherwise
RaisesForStatus(status) == 400 <= status /\ status < 600

\* lines 54 and 64: time.sleep(1.5 * (i + 1)), in half-seconds
Backoff(i) == 3 * (i + 1)

\* a fault of lines 51 and 61: one iteration too many
LoopContinues_OneMore(i) == i + 1 <= MAX_ATTEMPTS

\* lines 51 and 61: `continue` goes on to the next i of range(5), if any
LoopContinues(i) == i + 1 < MAX_ATTEMPTS

\* a fault of lines 52 and 62: the header built once, before the loop
AttemptHeaders_Hoisted(i, carried, cache, now, idp) ==
    IF i = 0 THEN gheaders(cache, now, idp)
    ELSE [cache |-> cache, ret |-> carried, err |-> "", called |-> FALSE, dt |-> 0]

\* lines 52 and 62: headers=gheaders() is evaluated in every iteration
AttemptHeaders(i, carried, cache, now, idp) == gheaders(cache, now, idp)

NoHist == [attempts |-> 0, nsleeps |-> 0, slept |-> 0, lastSleep |-> 0, last |-> ""]
NoAtt == [now |-> 0, stale |-> FALSE, called |-> FALSE, tok |-> None,
          prev |-> None, prevStale |-> FALSE]
\* the outcome of a call: what it returned, or the exception it raised, and
\* whether the exception came from the request itself ("graph") or from
\* get_graph_token ("idp")
NoRes == [kind |-> "none", response |-> NoResponse, err |-> "", src |-> ""]

\* the 4xx answer of the identity provider behind a failed token request
IdpErrorResponse == [err |-> "", status |-> 401, body |-> TextBody(0)]

HTTPError(r) == [kind |-> "raised", response |-> r, err |-> "HTTPError", src |-> "graph"]
OtherError(x) == [kind |-> "raised", response |-> NoResponse, err |-> x, src |-> "graph"]
TokenError(x) ==
    [kind |-> "raised",
     response |-> IF x = "HTTPError" THEN IdpErrorResponse ELSE NoResponse,
     err |-> x, src |-> "idp"]
Returns(r) == [kind |-> "response", response |-> r, err |-> "", src |-> ""]
ReturnsNone == [kind |-> "None", response |-> NoResponse, err |-> "", src |-> ""]

\* the cached token is missing or has 60 seconds or less left at `now`
StaleAt(now) ==
    token_cache.access_token = None \/ token_cache.exp - now <= Sec(60)

\* entering gget / gpost: i = 0 (lines 51, 61)
EnterRetry(m) ==
    /\ gpc' = "attempt"
    /\ gmeth' = m
    /\ g_i' = 0
    /\ g_r' = NoResponse
    /\ gres' = NoRes
    /\ ghist' = NoHist
    /\ gatt' = NoAtt

\* a caller outside the routes calls gget(url) or gpost(url)
RetryBegin(m) ==
    /\ AllIdle
    /\ clock <= MaxClock
    /\ EnterRetry(m)
    /\ UNCHANGED <<clock, token_cache, threadVars, gwVars>>

\* lines 52-57 (62-67): one attempt.  The header is built (which may refresh the
\* token or raise), the request is sent, and its status decides between
\* sleeping, raising and returning.  R is what the upstream may answer, O what
\* the identity provider may.
RetryAttempt(m, R, O) ==
    /\ gpc = "attempt"
    /\ gmeth = m
    /\ \E idp \in O, r \in R :
         LET h == AttemptHeaders(g_i, gatt.tok, token_cache, clock, idp) IN
         /\ idp.d = 0 \/ clock + idp.d <= MaxClock
         /\ token_cache' = h.cache
         /\ clock' = clock + h.dt
         /\ gatt' = [now |-> clock, stale |-> StaleAt(clock), called |-> h.called,
                     tok |-> h.ret, prev |-> gatt.tok, prevStale |-> gatt.stale]
         /\ IF h.err # ""
            THEN /\ gpc' = "raised"
                 /\ gres' = TokenError(h.err)
                 /\ UNCHANGED <<g_r, ghist>>
            ELSE /\ ghist' = [ghist EXCEPT !.attempts = @ + 1, !.last = "attempt"]
                 /\ IF r.err # ""
                    THEN /\ gpc' = "raised"
                         /\ gres' = OtherError(r.err)
                         /\ UNCHANGED g_r
                    ELSE /\ g_r' = r
                         /\ IF Retryable(r.status)
                            THEN gpc' = "sleep" /\ UNCHANGED gres
                            ELSE IF RaisesForStatus(r.status)
                            THEN gpc' = "raised" /\ gres' = HTTPError(r)
                            ELSE gpc' = "returned" /\ gres' = Returns(r)
    /\ UNCHANGED <<gmeth, g_i, threadVars>>

\* lines 54-55 (64-65): time.sleep(1.5 * (i + 1)); continue.  After the last
\* iteration the loop is left and line 58 (68) runs: r.raise_for_status(), and
\* the function ends without a return statement if that does not raise.
RetrySleep(m) ==
    /\ gpc = "sleep"
    /\ gmeth = m
    /\ clock' = clock + Backoff(g_i)
    /\ ghist' = [ghist EXCEPT !.nsleeps = @ + 1, !.slept = @ + Backoff(g_i),
                              !.lastSleep = Backoff(g_i), !.last = "sleep"]
    /\ IF LoopContinues(g_i)
       THEN /\ g_i' = g_i + 1
            /\ gpc' = "attempt"
            /\ UNCHANGED gres
       ELSE /\ UNCHANGED g_i
            /\ IF RaisesForStatus(g_r.status)
               THEN gpc' = "raised" /\ gres' = HTTPError(g_r)
               ELSE gpc' = "returned" /\ gres' = ReturnsNone
    /\ UNCHANGED <<token_cache, gmeth, g_r, gatt, threadVars>>

\* the frame of gget / gpost is gone
RetryIdle ==
    /\ gpc' = "idle"
    /\ gmeth' = "GET"
    /\ g_i' = 0
    /\ g_r' = NoResponse
    /\ gres' = NoRes
    /\ ghist' = NoHist
    /\ gatt' = NoAtt

\* the caller outside the routes has taken the result
RetryEnd ==
    /\ hpc = "idle"
    /\ gpc \in {"returned", "raised"}
    /\ RetryIdle
    /\ UNCHANGED <<clock, token_cache, threadVars, gwVars>>

\* gget and gpost called directly, outside any route
gget_begin == RetryBegin("GET")
gget_attempt ==
    hpc = "idle" /\ RetryAttempt("GET", RetryResponses, IdpOutcomes) /\ UNCHANGED gwVars
gget_sleep == hpc = "idle" /\ RetrySleep("GET") /\ UNCHANGED gwVars
gpost_begin == RetryBegin("POST")
gpost_attempt ==
    hpc = "idle" /\ RetryAttempt("POST", RetryResponses, IdpOutcomes) /\ UNCHANGED gwVars
gpost_sleep == hpc = "idle" /\ RetrySleep("POST") /\ UNCHANGED gwVars


(* ---------------------------------------------------------------------- *)
(* Text.  A str (or the decoded text of a file) is a sequence of           *)
(* characters, each a one-character string.                                *)
(* ---------------------------------------------------------------------- *)

NoneStr == <<"None">>              \* Python's None where a str is expected

TruthyStr(v) == v # NoneStr /\ v # <<>>

RECURSIVE LStrip(_, _)
LStrip(s, cs) ==
    IF s # <<>> /\ Head(s) \in cs THEN LStrip(Tail(s), cs) ELSE s

RECURSIVE RStrip(_, _)
RStrip(s, cs) ==
    IF s # <<>> /\ s[Len(s)] \in cs THEN RStrip(SubSeq(s, 1, Len(s) - 1), cs) ELSE s

\* str.strip(): leading and trailing whitespace removed
strip(s) == RStrip(LStrip(s, {" ", "\t", "\n"}), {" ", "\t", "\n"})

\* str.strip("/")
strip_slash(s) == RStrip(LStrip(s, {"/"}), {"/"})

LowerChar(c) ==
    CASE c = "A" -> "a" [] c = "B" -> "b" [] c = "C" -> "c" [] c = "D" -> "d"
      [] c = "F" -> "f" [] c = "M" -> "m" [] c = "O" -> "o" [] c = "P" -> "p"
      [] c = "R" -> "r" [] c = "S" -> "s" [] c = "T" -> "t" [] c = "V" -> "v"
      [] c = "X" -> "x" [] c = "Y" -> "y" [] c = "Z" -> "z"
      [] OTHER -> c

\* str.lower()
lower(s) == [k \in 1..Len(s) |-> LowerChar(s[k])]

\* str.endswith(suffix)
endswith(s, suffix) ==
    /\ Len(s) >= Len(suffix)
    /\ SubSeq(s, Len(s) - Len(suffix) + 1, Len(s)) = suffix

\* str.find(sub): the lowest index where sub occurs, -1 if it does not
find(s, sub) ==
    LET at == {k \in 0..(Len(s) - Len(sub)) : SubSeq(s, k + 1, k + Len(sub)) = sub}
    IN  IF at = {} THEN 0 - 1 ELSE CHOOSE k \in at : \A j \in at : k <= j

RECURSIVE Join(_, _)
\* sep.join(parts), the parts being texts
Join(parts, sep) ==
    IF parts = <<>> THEN <<>>
    ELSE IF Len(parts) = 1 THEN parts[1]
    ELSE parts[1] \o <<sep>> \o Join(Tail(parts), sep)

(* ---------------------------------------------------------------------- *)
(* Text extraction (lines 94-116)                                          *)
(* ---------------------------------------------------------------------- *)

EXT_PDF == <<".", "p", "d", "f">>
EXT_DOCX == <<".", "d", "o", "c", "x">>
EXT_TXT == <<".", "t", "x", "t">>
EXT_MD == <<".", "m", "d">>
EXT_CSV == <<".", "c", "s", "v">>

\* line 98, in the order of the tuple
EXTS == <<EXT_PDF, EXT_DOCX, EXT_TXT, EXT_MD, EXT_CSV>>

RECURSIVE FirstExt(_, _)
\* lines 98-101: the first ext of the tuple the name ends with, "" if none
FirstExt(name, k) ==
    IF k > Len(EXTS) THEN <<>>
    ELSE IF endswith(name, EXTS[k]) THEN EXTS[k]
    ELSE FirstExt(name, k + 1)

\* a fault of line 97: the name is not lower-cased
guess_ext_CaseSensitive(name) ==
    IF ~TruthyStr(name) THEN <<>> ELSE FirstExt(name, 1)

\* lines 94-101
guess_ext(name) ==
    IF ~TruthyStr(name) THEN <<>> ELSE FirstExt(lower(name), 1)

\* The bytes of a file: the format they really are in, what the PDF library
\* extracts from them, the paragraphs and table rows python-docx finds in
\* them, and their UTF-8 decoding with errors="ignore".
Content(fmt, pdf, paras, rows, utf8) ==
    [fmt |-> fmt, pdf |-> pdf, paras |-> paras, rows |-> rows, utf8 |-> utf8]

DocxHello ==
    Content("docx", <<>>, << <<"H", "i">> >>,
            << << <<"a">>, <<"b">> >>, << <<"c">>, <<"d">> >> >>, <<"P", "K">>)
PdfFile == Content("pdf", <<"p", "d", "f", "!">>, <<>>, <<>>, <<"%">>)
TxtFile == Content("text", <<>>, <<>>, <<>>, <<"t", "x", "t">>)
EmptyContent == Content("text", <<>>, <<>>, <<>>, <<>>)

Contents == {DocxHello, PdfFile, TxtFile}

Extracted(text) == [raised |-> FALSE, text |-> text]
ExtractFails == [raised |-> TRUE, text |-> <<>>]

\* a fault of line 116: an error instead of the empty string
Unsupported_Raises == ExtractFails

\* line 116: return ""  (binaries and formats not handled)
Unsupported == Extracted(<<>>)

\* lines 103-116.  The PDF and DOCX libraries raise on bytes that are not in
\* their format; bytes.decode(errors="ignore") never raises.
extract_text_from_bytes(content, filename) ==
    LET ext == guess_ext(filename) IN
    IF ext = EXT_PDF
    THEN IF content.fmt = "pdf" THEN Extracted(content.pdf) ELSE ExtractFails
    ELSE IF ext = EXT_DOCX
    THEN IF content.fmt = "docx" THEN Extracted(Join(content.paras, "\n"))
         ELSE ExtractFails
    ELSE IF ext \in {EXT_TXT, EXT_MD, EXT_CSV}
    THEN Extracted(content.utf8)
    ELSE Unsupported


(* ---------------------------------------------------------------------- *)
(* The routes (lines 121-361)                                              *)
(* ---------------------------------------------------------------------- *)

GuardedRoutes == {"debug_drive", "debug_list", "search", "read", "resolve", "read_by_id"}

\* values of the x-api-key header (NoneStr: no such header) and of API_KEY
\* (NoneStr: the variable is not set)
KEY_SECRET == <<"s", "3">>
KEY_WRONG == <<"w">>
HeaderValues == {NoneStr, KEY_SECRET, KEY_WRONG}
ApiKeyValues == {NoneStr, KEY_SECRET}
UserValues == {NoneStr, <<"u">>}

DRIVE_ID == <<"b", "!">>

\* drive items as the remote API lists them
Item(id, name, folder) == [id |-> id, name |-> name, folder |-> folder]
ItemA == Item(<<"1">>, <<"D", "p", "r">>, FALSE)
ItemB == Item(<<"2">>, <<"x">>, TRUE)

\* the "value" arrays a page of children may carry
PageValues == {<<>>, <<ItemA>>, <<ItemB, ItemA>>}

N_pdf == <<"x">> \o EXT_PDF
N_PDF == <<"X", ".", "P", "D", "F">>
N_docx == <<"x">> \o EXT_DOCX
N_Docx == <<"x", ".", "D", "o", "c", "X">>
N_txt == <<"x">> \o EXT_TXT
N_md == <<"x">> \o EXT_MD
N_csv == <<"x">> \o EXT_CSV
N_xyz == <<"x", ".", "x", "y", "z">>
N_bak == <<"x">> \o EXT_PDF \o <<".", "b">>
N_bare == <<"p", "d", "f">>

\* file names the metadata of an item (or the caller of /read_by_id) may give
FileNames == {N_pdf, N_PDF, N_docx, N_Docx, N_txt, N_md, N_csv, N_xyz, N_bak,
              N_bare, <<>>}

\* raw query / body parameters, before .strip()
RawQ == {<<>>, <<" ">>, <<"d", "P">>, <<" ", "x", " ">>, <<"z">>}
RawPath == {<<>>, <<"/">>, <<" ", "/", "D", "/">>}
RawUrl == {<<>>, <<" ">>, <<"h">>}
RawId == {<<>>, NoneStr, <<"7">>}
RawDriveId == {NoneStr, DRIVE_ID}

\* JSON bodies of the remote API
JsonDrive(id) == [kind |-> "json", id |-> id]
JsonPage(value, next) == [kind |-> "json", value |-> value, next |-> next]
JsonItem(it) == [kind |-> "json", id |-> it.id, name |-> it.name, folder |-> it.folder]
Bytes(c) == [kind |-> "bytes", content |-> c]

\* a fault of line 74: every key passes
require_api_key_Always(header, api_key) == TRUE

\* line 74: req.headers.get("x-api-key") == API_KEY
require_api_key(header, api_key) == header = api_key

\* the JSON a route answers with, and its status
Response(status, error) ==
    [status |-> status, error |-> error, items |-> <<>>, text |-> <<>>,
     name |-> <<>>, did |-> NoneStr, upstream |-> 0]

NoResponseYet == Response(0, "")

NoReq == [route |-> "", key |-> NoneStr]
NoLoc == [did |-> NoneStr, q |-> <<>>, path |-> <<>>, items |-> <<>>,
          next_url |-> Absent, name |-> <<>>, id |-> NoneStr, text |-> <<>>,
          content |-> EmptyContent]
NoExc == [err |-> "", src |-> ""]
NoStat == [ran |-> FALSE, upstream |-> FALSE, extracted |-> FALSE, sleeps |-> 0,
           slept |-> 0, arg |-> <<>>, exc |-> NoExc, found |-> <<>>]

\* lines 158-165, 202-212, 219-227, 307-316: what is shown of an item
Project(it) == [id |-> it.id, name |-> it.name,
                type |-> IF it.folder THEN "folder" ELSE "file"]

ProjectAll(items) == [k \in 1..Len(items) |-> Project(items[k])]

\* a fault of lines 156, 199, 305: the page replaces the list
ListExtend_Replace(items, value) == value

\* lines 156, 199, 305: items.extend(resp.get("value", []))
ListExtend(items, value) == items \o value

\* a fault of line 211: the name is not lower-cased
Select_CaseSensitive(items, qlow) ==
    SelectSeq(items, LAMBDA it : find(it.name, qlow) # 0 - 1)

\* a fault of lines 157, 200, 306: the link of the page is not taken up
NextUrl_Stuck(cur, body) == cur

\* lines 157, 200, 306: next_url = resp.get("@odata.nextLink")
NextUrl(cur, body) == body.next

RECURSIVE Select(_, _)
\* lines 202-212: the items whose lower-cased name contains qlow, in order
Select(items, qlow) ==
    IF items = <<>> THEN <<>>
    ELSE IF find(lower(Head(items).name), qlow) # 0 - 1
    THEN <<Head(items)>> \o Select(Tail(items), qlow)
    ELSE Select(Tail(items), qlow)


\* an exception that carries no response
Exc(x) == [err |-> x, response |-> NoResponse]

\* the except clauses of a route: debug_drive has only `except Exception`
\* (lines 135-136); the others answer 502 to requests.HTTPError and 500 to
\* anything else (lines 166-169 and alike)
OnException(route, e) ==
    IF route = "debug_drive" THEN Response(500, e.err)
    ELSE IF e.err = "HTTPError"
    THEN [Response(502, "graph_error") EXCEPT !.upstream = e.response.status]
    ELSE Response(500, "internal_error")

\* the route returns
Finish(r, loc) ==
    /\ RetryIdle
    /\ hpc' = "responded"
    /\ resp' = r
    /\ hloc' = loc

\* the route calls gget(url) and waits for it; phase names the url
StartCall(phase, loc) ==
    /\ EnterRetry("GET")
    /\ hpc' = phase
    /\ hloc' = loc
    /\ UNCHANGED resp

\* what a listing route answers once its next_url is empty
ListResponse(route, loc) ==
    IF route = "search"
    THEN [Response(200, "") EXCEPT !.items = ProjectAll(Select(loc.items, lower(loc.q)))]
    ELSE [Response(200, "") EXCEPT !.items = ProjectAll(loc.items)]

\* what each route does after `did = get_user_drive_id()` (lines 134, 151-154,
\* 194-197, 217-218, 252-253)
WithDid(route, loc) ==
    CASE route = "debug_drive" ->
           Finish([Response(200, "") EXCEPT !.did = loc.did], loc)
      [] route = "debug_list" ->
           StartCall("list", [loc EXCEPT !.items = <<>>, !.next_url = 1])
      [] route = "search" ->
           IF loc.path # <<>>
           THEN StartCall("list", [loc EXCEPT !.items = <<>>, !.next_url = 1])
           ELSE StartCall("search", loc)
      [] route = "read" -> StartCall("meta", loc)

\* a fault of lines 82-83: the cached id is not looked at
GetUserDriveId_NoCache(route, loc) ==
    IF ~TruthyStr(ONEDRIVE_USER)
    THEN Finish(OnException(route, Exc("RuntimeError")), loc)
    ELSE StartCall("drive", loc)

\* lines 81-87: get_user_drive_id() up to its gget, and what follows it
GetUserDriveId(route, loc) ==
    IF TruthyStr(drive_cache)
    THEN WithDid(route, [loc EXCEPT !.did = drive_cache])
    ELSE IF ~TruthyStr(ONEDRIVE_USER)
    THEN Finish(OnException(route, Exc("RuntimeError")), loc)
    ELSE StartCall("drive", loc)

\* a request arrives: nothing else is in progress; arg is the raw value of
\* the input the route requires (q, path, url, id), if it requires one
Arrives(route, key, arg) ==
    /\ AllIdle
    /\ clock <= MaxClock
    /\ req' = [route |-> route, key |-> key]
    /\ served' = <<>>
    /\ hstat' = [NoStat EXCEPT !.ran = require_api_key(key, API_KEY), !.arg = arg]
    /\ UNCHANGED <<clock, token_cache, threadVars, envVars, drive_cache>>

Unauthorized == Finish(Response(401, "unauthorized"), NoLoc)

\* lines 121-123
health ==
    /\ Arrives("health", NoneStr, <<>>)
    /\ Finish(Response(200, ""), NoLoc)

\* lines 128-136, up to the first upstream call
debug_drive ==
    \E key \in HeaderValues :
        /\ Arrives("debug_drive", key, <<>>)
        /\ IF ~require_api_key(key, API_KEY) THEN Unauthorized
           ELSE GetUserDriveId("debug_drive", NoLoc)

\* lines 138-169, up to the first upstream call
debug_list ==
    \E key \in HeaderValues, raw \in RawPath :
        /\ Arrives("debug_list", key, <<>>)
        /\ IF ~require_api_key(key, API_KEY) THEN Unauthorized
           ELSE LET p == strip_slash(strip(raw))
                    path == IF p = <<>> THEN <<"D", "o", "c">> ELSE p
                IN  GetUserDriveId("debug_list", [NoLoc EXCEPT !.path = path])

\* lines 174-233, up to the first upstream call
search ==
    \E key \in HeaderValues, rawq \in RawQ, rawp \in RawPath :
        /\ Arrives("search", key, rawq)
        /\ IF ~require_api_key(key, API_KEY) THEN Unauthorized
           ELSE LET q == strip(rawq)
                    path == strip_slash(strip(rawp))
                IN  IF q = <<>> THEN Finish(Response(400, "missing q"), NoLoc)
                    ELSE GetUserDriveId("search", [NoLoc EXCEPT !.q = q, !.path = path])

\* lines 238-264, up to the first upstream call; json_ok is whether the body
\* of the request parses as a JSON object
read_by_path ==
    \E key \in HeaderValues, json_ok \in BOOLEAN, raw \in RawPath :
        /\ Arrives("read", key, IF json_ok THEN raw ELSE NoneStr)
        /\ IF ~require_api_key(key, API_KEY) THEN Unauthorized
           ELSE IF ~json_ok THEN Finish(OnException("read", Exc("BadRequest")), NoLoc)
           ELSE LET path == strip_slash(strip(raw)) IN
                IF path = <<>> THEN Finish(Response(400, "missing path"), NoLoc)
                ELSE GetUserDriveId("read", [NoLoc EXCEPT !.path = path])

\* lines 269-322, up to the first upstream call
resolve_link ==
    \E key \in HeaderValues, raw \in RawUrl :
        /\ Arrives("resolve", key, raw)
        /\ IF ~require_api_key(key, API_KEY) THEN Unauthorized
           ELSE LET url == strip(raw) IN
                IF url = <<>> THEN Finish(Response(400, "missing url param"), NoLoc)
                ELSE StartCall("item", [NoLoc EXCEPT !.path = url])

\* lines 327-361, up to the first upstream call
read_by_id ==
    \E key \in HeaderValues, json_ok \in BOOLEAN, id \in RawId,
       drive_id \in RawDriveId, name \in {<<>>, N_xyz, N_txt} :
        /\ Arrives("read_by_id", key, IF json_ok THEN id ELSE NoneStr)
        /\ IF ~require_api_key(key, API_KEY) THEN Unauthorized
           ELSE IF ~json_ok
           THEN Finish(OnException("read_by_id", Exc("BadRequest")), NoLoc)
           ELSE IF ~TruthyStr(id) THEN Finish(Response(400, "missing id"), NoLoc)
           ELSE StartCall("meta", [NoLoc EXCEPT !.id = id, !.did = drive_id,
                                                !.name = name])

\* lines 257-260, 354-357: r.content, extract_text_from_bytes, the answer
ReadContent(route, body) ==
    LET content == IF body.kind = "bytes" THEN body.content ELSE EmptyContent
        ex == extract_text_from_bytes(content, hloc.name)
    IN  IF ex.raised THEN Finish(OnException(route, Exc("ExtractError")), hloc)
        ELSE Finish([Response(200, "") EXCEPT !.text = ex.text, !.name = hloc.name],
                    [hloc EXCEPT !.text = ex.text, !.content = content])

\* A route goes on after gget has returned or raised: the rest of
\* get_user_drive_id (lines 87-89), one turn of a `while next_url` loop
\* (lines 154-157, 197-200, 303-306), or the lines after a single gget.
Resume(route) ==
    /\ req.route = route
    /\ hpc \in {"drive", "list", "search", "meta", "content", "item"}
    /\ gpc \in {"returned", "raised"}
    /\ LET body == gres.response.body IN
       IF gres.kind = "raised"
       THEN Finish(OnException(route, gres), hloc) /\ UNCHANGED drive_cache
       ELSE IF hpc = "content"
       THEN ReadContent(route, body) /\ UNCHANGED drive_cache
       ELSE IF gres.kind # "response" \/ body.kind # "json"
       THEN Finish(OnException(route, Exc("ValueError")), hloc) /\ UNCHANGED drive_cache
       ELSE CASE hpc = "drive" ->
                   /\ drive_cache' = body.id
                   /\ WithDid(route, [hloc EXCEPT !.did = body.id])
              [] hpc = "list" ->
                   /\ UNCHANGED drive_cache
                   /\ LET loc == [hloc EXCEPT !.items = ListExtend(@, body.value),
                                              !.next_url = NextUrl(@, body)]
                      IN  IF loc.next_url # Absent THEN StartCall("list", loc)
                          ELSE Finish(ListResponse(route, loc), loc)
              [] hpc = "search" ->
                   /\ UNCHANGED drive_cache
                   /\ Finish([Response(200, "") EXCEPT !.items = ProjectAll(body.value)],
                             hloc)
              [] hpc = "meta" ->
                   /\ UNCHANGED drive_cache
                   /\ StartCall("content",
                                [hloc EXCEPT !.name =
                                   IF route = "read_by_id" /\ TruthyStr(hloc.name)
                                   THEN hloc.name ELSE body.name])
              [] hpc = "item" ->
                   /\ UNCHANGED drive_cache
                   /\ IF body.folder
                      THEN StartCall("list", [hloc EXCEPT !.items = <<>>, !.next_url = 1])
                      ELSE Finish([Response(200, "") EXCEPT !.name = body.name], hloc)
    /\ hstat' = [hstat EXCEPT
                    !.extracted = (hpc = "content" /\ gres.kind # "raised"),
                    !.exc = IF gres.kind = "raised"
                            THEN [err |-> gres.err, src |-> gres.src] ELSE @]
    /\ UNCHANGED <<clock, token_cache, threadVars, envVars, req, served>>

debug_drive_resume == Resume("debug_drive")
debug_list_resume == Resume("debug_list")
search_resume == Resume("search")
read_by_path_resume == Resume("read")
resolve_link_resume == Resume("resolve")
read_by_id_resume == Resume("read_by_id")

\* a folder holds no more items than its pages can carry
MaxItems == 2 * MaxPages

\* what the remote API may answer with a 200 to the url the route waits for,
\* its pages carrying one of the arrays in values
RemoteOk(values) ==
    CASE hpc = "drive" -> {JsonDrive(DRIVE_ID), JsonDrive(NoneStr)}
      [] hpc = "list" ->
           {JsonPage(v, n) :
              v \in {p \in values : Len(hloc.items) + Len(p) <= MaxItems},
              n \in {Absent} \cup (IF hloc.next_url < MaxPages
                                   THEN {hloc.next_url + 1} ELSE {})}
      [] hpc = "search" -> {JsonPage(v, Absent) : v \in values}
      [] hpc = "meta" -> {JsonItem(Item(<<"7">>, n, FALSE)) : n \in FileNames}
      [] hpc = "item" -> {JsonItem(ItemA), JsonItem(ItemB)}
      [] hpc = "content" -> {Bytes(c) : c \in Contents}
      [] OTHER -> {}

\* everything one upstream attempt of a route may meet; a request meets at
\* most MaxFaults retryable answers
RemoteResponses(values) ==
    {Resp(200, b) : b \in RemoteOk(values)}
        \cup {Resp(304, TextBody(0)), Resp(404, TextBody(0)), NetFail}
        \cup (IF hstat.sleeps < MaxFaults THEN {Resp(503, TextBody(0))} ELSE {})

RemoteIdp == {IdpOk(Absent, 0), IdpFail("HTTPError", 0)}

\* a page without items whose continuation link is the url it was asked at
RemoteLoops ==
    IF hpc = "list" THEN {Resp(200, JsonPage(<<>>, hloc.next_url))} ELSE {}

\* one attempt of the gget a route waits for (lines 52-57), the remote API
\* answering with one of R; record: the pages served are kept in `served`
RouteAttempt(R, record) ==
    /\ hpc \notin {"idle", "responded"}
    /\ RetryAttempt("GET", R, RemoteIdp)
    /\ served' = IF record /\ hpc = "list" /\ gpc' = "returned" /\ g_r'.status = 200
                 THEN Append(served, [url |-> hloc.next_url, value |-> g_r'.body.value,
                                      next |-> g_r'.body.next])
                 ELSE served
    /\ hstat' = [hstat EXCEPT
                    !.upstream = TRUE,
                    !.found = IF hpc = "search" /\ gpc' = "returned" /\ g_r'.status = 200
                              THEN g_r'.body.value ELSE @]
    /\ UNCHANGED <<envVars, drive_cache, hpc, req, hloc, resp>>

\* the remote API lists every folder in finitely many pages
route_gget_attempt == RouteAttempt(RemoteResponses(PageValues), TRUE)

\* the remote API may also hand out continuation links that lead nowhere new
route_gget_attempt_any ==
    RouteAttempt(RemoteResponses({<<>>, <<ItemA>>}) \cup RemoteLoops, FALSE)

\* one sleep of the gget a route waits for (lines 54-55, 58)
route_gget_sleep ==
    /\ hpc \notin {"idle", "responded"}
    /\ RetrySleep("GET")
    /\ hstat' = [hstat EXCEPT !.sleeps = @ + 1, !.slept = @ + Backoff(g_i)]
    /\ UNCHANGED <<envVars, drive_cache, hpc, req, hloc, resp, served>>

\* the response has been sent
EndRequest ==
    /\ hpc = "responded"
    /\ hpc' = "idle"
    /\ req' = NoReq
    /\ hloc' = NoLoc
    /\ resp' = NoResponseYet
    /\ served' = <<>>
    /\ hstat' = NoStat
    /\ UNCHANGED <<clock, token_cache, threadVars, retryVars, envVars, drive_cache>>

InitState ==
    /\ clock = 0
    /\ token_cache = InitTokenCache
    /\ tpc = [t \in Threads |-> "idle"]
    /\ tnow = [t \in Threads |-> 0]
    /\ tresp = [t \in Threads |-> NoResp]
    /\ tcall = [t \in Threads |-> NoCall]
    /\ gpc = "idle"
    /\ gmeth = "GET"
    /\ g_i = 0
    /\ g_r = NoResponse
    /\ gres = NoRes
    /\ ghist = NoHist
    /\ gatt = NoAtt
    /\ drive_cache = NoneStr
    /\ hpc = "idle"
    /\ req = NoReq
    /\ hloc = NoLoc
    /\ resp = NoResponseYet
    /\ served = <<>>
    /\ hstat = NoStat

\* the process as configured in production: both variables set
Init ==
    /\ InitState
    /\ API_KEY = KEY_SECRET
    /\ ONEDRIVE_USER = <<"u">>

\* the process under any configuration of API_KEY and ONEDRIVE_USER
InitAnyEnv ==
    /\ InitState
    /\ API_KEY \in ApiKeyValues
    /\ ONEDRIVE_USER \in UserValues

TokStep(t) ==
    \/ TokCheckToken(t)
    \/ TokCheckExp(t)
    \/ TokReturnCached(t)
    \/ TokPostOk(t)
    \/ TokPostFail(t)
    \/ TokStoreToken(t)
    \/ TokStoreExp(t)
    \/ TokReturnNew(t)
    \/ TokEnd(t)

\* get_graph_token called again and again, one call at a time
NextTok ==
    \/ Tick
    \/ \E t \in Threads : TokBegin(t, TRUE)
    \/ \E t \in Threads : TokStep(t)

SpecTok == Init /\ [][NextTok]_vars

\* get_graph_token called from concurrent request threads
NextConc ==
    \/ Tick
    \/ \E t \in Threads : TokBegin(t, FALSE)
    \/ \E t \in Threads : TokStep(t)

SpecConc == Init /\ [][NextConc]_vars

\* gget and gpost called again and again by a single thread
NextRetry ==
    \/ Tick
    \/ gget_begin
    \/ gget_attempt
    \/ gget_sleep
    \/ gpost_begin
    \/ gpost_attempt
    \/ gpost_sleep
    \/ RetryEnd

SpecRetry == Init /\ [][NextRetry]_vars

\* the service handling one request after another
Next ==
    \/ health
    \/ debug_drive
    \/ debug_list
    \/ search
    \/ read_by_path
    \/ resolve_link
    \/ read_by_id
    \/ debug_drive_resume
    \/ debug_list_resume
    \/ search_resume
    \/ read_by_path_resume
    \/ resolve_link_resume
    \/ read_by_id_resume
    \/ route_gget_attempt
    \/ route_gget_sleep
    \/ EndRequest

Spec == InitAnyEnv /\ [][Next]_vars

\* the steps of a request in progress: the thread that handles it runs, and
\* every upstream call it makes returns
Progress ==
    \/ debug_drive_resume
    \/ debug_list_resume
    \/ search_resume
    \/ read_by_path_resume
    \/ resolve_link_resume
    \/ read_by_id_resume
    \/ route_gget_attempt_any
    \/ route_gget_sleep

\* the service against a remote API that answers every call, but may list a
\* folder with continuation links that lead back
NextLive ==
    \/ health
    \/ debug_drive
    \/ debug_list
    \/ search
    \/ read_by_path
    \/ resolve_link
    \/ read_by_id
    \/ Progress
    \/ EndRequest

SpecLive == Init /\ [][NextLive]_vars /\ WF_vars(Progress)

(* ---------------------------------------------------------------------- *)
(* Properties of the token cache                                           *)
(* ---------------------------------------------------------------------- *)

Returned(t) == tpc[t] = "done" /\ tcall[t].kind \in {"hit", "new"}

\* C1 as stated: whenever get_graph_token hands a token to its caller (from the
\* cache or right after a refresh), the token has more than 60 seconds left
\* before its expiry at that moment.
C1_NeverNearExpiry ==
    \A t \in Threads :
        Returned(t) => token_cache.exp - clock > Sec(60)

\* C1 as the code has it: a token returned from the cache has more than 60
\* seconds left before the cached expiry when it is returned; a token returned
\* right after a refresh is the one just received, its expiry is the start of
\* the call plus expires_in (3600 s when the answer has none), and it is
\* returned whatever that lifetime is.
C1_FreshOnHit ==
    \A t \in Threads :
        /\ (tpc[t] = "done" /\ tcall[t].kind = "hit") =>
              /\ tcall[t].tok = token_cache.access_token
              /\ tcall[t].tok # None
              /\ token_cache.exp - clock > Sec(60)
        /\ (tpc[t] = "done" /\ tcall[t].kind = "new") =>
              /\ tcall[t].tok = tresp[t].access_token
              /\ tcall[t].tok = token_cache.access_token
              /\ token_cache.exp - tnow[t] =
                    (IF tcall[t].expires_in = Absent THEN Sec(3600)
                     ELSE tcall[t].expires_in)

\* a cache hit at a time later than the refresh that filled the cache
C1_Witness ==
    \E t \in Threads :
        /\ tpc[t] = "done" /\ tcall[t].kind = "hit"
        /\ clock > token_cache.access_token.iss

\* where a call stands against the freshness test it made
C2_HitInv ==
    \A t \in Threads :
        /\ tpc[t] = "post" => StaleAt(tnow[t])
        /\ tpc[t] = "return_cached" => ~StaleAt(tnow[t])
        /\ (tpc[t] = "done" /\ tcall[t].kind = "hit") =>
              /\ ~StaleAt(tnow[t])
              /\ ~tcall[t].called
              /\ tcall[t].tok = token_cache.access_token
        /\ tcall[t].called <=>
              \/ tpc[t] \in {"store_token", "store_exp", "return_new"}
              \/ tpc[t] = "done" /\ tcall[t].kind \in {"new", "raised"}

\* the steps of a hit leave the cache alone
C2_HitStep ==
    \A t \in Threads :
        (tpc[t] \in {"check_token", "check_exp", "return_cached"}
           /\ tpc'[t] \in {"check_exp", "return_cached", "done"})
        => token_cache' = token_cache

\* C2: get_graph_token reaches the identity provider exactly when no token is
\* cached or the cached one has 60 seconds or less left; otherwise it returns
\* the cached value, makes no call, and no step of the call changes the cache.
C2_CacheHitRule == []C2_HitInv /\ [][C2_HitStep]_vars

\* a hit on a token whose expiry is now + 120 s
C2_Witness ==
    \E t \in Threads :
        /\ tpc[t] = "done" /\ tcall[t].kind = "hit"
        /\ token_cache.exp = tnow[t] + Sec(120)

\* C5: under concurrent calls the cached token is never paired with an expiry
\* later than that token's own expiry, and every caller receives a token that
\* has not expired.
C5_BenignRace ==
    /\ Truthy(token_cache.access_token) =>
          token_cache.exp <= OwnExpiry(token_cache.access_token)
    /\ \A t \in Threads :
          Returned(t) => tcall[t].at < OwnExpiry(tcall[t].tok)

(* ---------------------------------------------------------------------- *)
(* Properties of gget / gpost                                              *)
(* ---------------------------------------------------------------------- *)

RetryOver == gpc \in {"returned", "raised"}

\* what a call has done and what it ends with
C3_Inv ==
    /\ ghist.attempts <= 5
    /\ gpc = "returned" =>
          /\ gres.kind = "response"
          /\ gres.response = g_r
          /\ g_r.status \notin {429, 500, 502, 503, 504}
    /\ (RetryOver /\ ghist.attempts = 5 /\ ghist.last = "sleep") =>
          /\ gres = [kind |-> "raised", response |-> g_r, err |-> "HTTPError",
                      src |-> "graph"]
          /\ g_r.status \in {429, 500, 502, 503, 504}

\* when one more attempt follows
C3_Step ==
    /\ ghist'.attempts = ghist.attempts + 1 /\ ghist.attempts >= 1 =>
          /\ g_r.status \in {429, 500, 502, 503, 504}
          /\ ghist.attempts < 5
    /\ (gpc = "sleep" /\ ghist.attempts < 5) => gpc' = "attempt"
    /\ (gpc = "sleep" /\ ghist.attempts >= 5) => gpc' = "raised"

\* C3: a call makes at most 5 attempts; a further attempt is made only after a
\* response with status 429, 500, 502, 503 or 504 and while fewer than 5 were
\* made, and then it is made; the call returns only a response whose status is
\* none of those (never None), and when the 5th response is one of them it
\* raises an HTTPError carrying that response.
C3_BoundedRetry == []C3_Inv /\ [][C3_Step]_vars

\* the 5th attempt answered 200 and the call returned that response
C3_Witness ==
    /\ gpc = "returned"
    /\ ghist.attempts = 5
    /\ ghist.nsleeps = 4
    /\ gres.response.status = 200

\* C4: when a call has received a non-2xx response whose status is not one of
\* the five retryable ones, or has received its 5th response with a retryable
\* status, it raises an error carrying that response, and nothing (no sleep, no
\* attempt) happens between that response and the raise.
C4_ImmediateRaise ==
    LET terminal ==
          /\ ghist.attempts >= 1
          /\ ghist.last = "attempt" \/ ghist.nsleeps = ghist.attempts
          /\ ~(200 <= g_r.status /\ g_r.status < 300)
          /\ g_r.status \notin {429, 500, 502, 503, 504} \/ ghist.attempts = 5
    IN  /\ (RetryOver /\ terminal) =>
              /\ gres = [kind |-> "raised", response |-> g_r, err |-> "HTTPError",
                      src |-> "graph"]
              /\ ghist.last = "attempt"
        /\ (gpc = "sleep") => ghist.attempts < 5

\* C7: the k-th sleep of a call lasts 1.5 * k seconds, the sleeps of a call add
\* up to at most 22.5 seconds, and every sleep lies between two attempts, so a
\* call that has returned, or raised for a response, has slept fewer times than
\* it has made attempts.
C7_Backoff ==
    /\ ghist.lastSleep = 3 * ghist.nsleeps
    /\ 2 * ghist.slept = 3 * ghist.nsleeps * (ghist.nsleeps + 1)
    /\ ghist.slept <= 45
    /\ (gpc = "returned" \/ (gpc = "raised" /\ gres.src = "graph")) =>
          ghist.nsleeps < ghist.attempts

\* C8: every attempt carries the token get_graph_token() returns at the time of
\* that attempt: it is the cached token, and if the cached token had 60 seconds
\* or less left (or none was cached) when the attempt began, it is one issued
\* during this attempt and not the token an earlier attempt carried.
C8_TokenPerAttempt ==
    (ghist.attempts >= 1 /\ ghist.last = "attempt") =>
        /\ gatt.tok = token_cache.access_token
        /\ gatt.tok # None
        /\ gatt.stale =>
              /\ gatt.called
              /\ gatt.tok.iss >= gatt.now
              /\ token_cache.exp = gatt.now + gatt.tok.life
        /\ ~gatt.stale => ~gatt.called /\ token_cache.exp - gatt.now > Sec(60)

\* the token of an earlier attempt was fresh then, went stale during the sleep,
\* and the next attempt carries a newer one
C8_Witness ==
    /\ ghist.attempts >= 2
    /\ ghist.last = "attempt"
    /\ gatt.stale
    /\ ~gatt.prevStale
    /\ gatt.prev # None
    /\ gatt.tok # gatt.prev
    /\ gatt.tok.iss > gatt.prev.iss

(* ---------------------------------------------------------------------- *)
(* Properties of the routes                                                *)
(* ---------------------------------------------------------------------- *)

Responded(routes) == hpc = "responded" /\ req.route \in routes

\* C6: on every route but /health, whatever API_KEY is (set or not), a request
\* whose x-api-key header does not match a configured secret is refused (403;
\* the 401 the code answers is taken as the same refusal) and the body of the
\* handler is not executed.
C6_ApiKeyGuard ==
    (Responded(GuardedRoutes) /\ ~(API_KEY # NoneStr /\ req.key = API_KEY)) =>
        /\ resp.status \in {401, 403}
        /\ ~hstat.ran
        /\ ~hstat.upstream

RECURSIVE Concat(_)
\* the items of the pages served, in page order and in-page order
Concat(pages) ==
    IF pages = <<>> THEN <<>> ELSE Head(pages).value \o Concat(Tail(pages))

RECURSIVE SumSizes(_)
SumSizes(pages) ==
    IF pages = <<>> THEN 0 ELSE Len(Head(pages).value) + SumSizes(Tail(pages))

ListingDone ==
    /\ Responded({"debug_list", "search", "resolve"})
    /\ resp.status = 200
    /\ served # <<>>

\* C9 as stated: when a listing route has answered, the sequence it returns is
\* the concatenation of the items of all pages, so it is as long as the sum of
\* the page sizes (also on /search with a path).
C9_ReturnedIsConcatenation ==
    ListingDone =>
        /\ Len(resp.items) = SumSizes(served)
        /\ \A k \in 1..Len(resp.items) :
              resp.items[k].id = Concat(served)[k].id

NameHasQ(it) == find(lower(it.name), lower(hloc.q)) >= 0

\* C9 as the code has it: the route asks for the first page, then for the
\* continuation link of each page until a page has none, and the list it builds
\* is the concatenation of the items of all those pages in page order and
\* in-page order, its length the sum of the page sizes.  /debug/list and
\* /resolve return one entry per item of that list, in that order; /search
\* with a path returns the entries of the items whose name contains q.
C9_ListingIsConcatenation ==
    ListingDone =>
        /\ served[1].url = 1
        /\ \A k \in 1..(Len(served) - 1) : served[k].next = served[k + 1].url
        /\ served[Len(served)].next = Absent
        /\ hloc.items = Concat(served)
        /\ Len(hloc.items) = SumSizes(served)
        /\ req.route \in {"debug_list", "resolve"} =>
              /\ Len(resp.items) = SumSizes(served)
              /\ \A k \in 1..Len(resp.items) :
                    /\ resp.items[k].id = Concat(served)[k].id
                    /\ resp.items[k].name = Concat(served)[k].name
        /\ req.route = "search" =>
              LET kept == SelectSeq(Concat(served), NameHasQ) IN
              /\ Len(resp.items) = Len(kept)
              /\ \A k \in 1..Len(kept) : resp.items[k].id = kept[k].id

\* a 3-page listing with an empty page in it, returned whole
C9_Witness ==
    /\ ListingDone
    /\ req.route = "debug_list"
    /\ Len(served) = 3
    /\ \E k \in 1..3 : served[k].value = <<>>
    /\ Len(resp.items) = 3

SupportedName(name) ==
    \E e \in {<<".", "p", "d", "f">>, <<".", "d", "o", "c", "x">>,
              <<".", "t", "x", "t">>, <<".", "m", "d">>, <<".", "c", "s", "v">>} :
        endswith(lower(name), e)

ReadDone == Responded({"read", "read_by_id"}) /\ hstat.extracted

MAX_CHARS == 2

\* C11: a successful /read or /read_by_id answer carries a text of at most
\* MAX_CHARS characters and a truncation flag, which is true exactly when the
\* extracted text was longer than MAX_CHARS; a text that is not longer is
\* returned whole.
C11_Truncation ==
    (ReadDone /\ resp.status = 200) =>
        /\ Len(resp.text) <= MAX_CHARS
        /\ "truncated" \in DOMAIN resp
        /\ resp.truncated = (Len(hloc.text) > MAX_CHARS)
        /\ Len(hloc.text) <= MAX_CHARS => resp.text = hloc.text

\* the required input of the request is missing or blank
MissingInput ==
    /\ req.route \in {"search", "read", "resolve", "read_by_id"}
    /\ hstat.arg # NoneStr
    /\ strip(hstat.arg) = <<>>

\* C12: in every guarded route a failure ends in a response whose status is
\* set by the class of the failure: a missing required input gives 400, a
\* failure at the identity provider 401 or 403, a terminal non-2xx answer of
\* the drive API 502.
C12_ErrorMapping ==
    (Responded(GuardedRoutes) /\ hstat.ran) =>
        /\ resp.status \in {200, 400, 401, 403, 415, 500, 502}
        /\ MissingInput => resp.status = 400
        /\ hstat.exc.src = "idp" => resp.status \in {401, 403}
        /\ (hstat.exc.src = "graph" /\ hstat.exc.err = "HTTPError") =>
              resp.status = 502

\* sub occurs in s
Contains(s, sub) ==
    \E k \in 0..(Len(s) - Len(sub)) : SubSeq(s, k + 1, k + Len(sub)) = sub

\* the positions of the listed items whose name contains q, whatever the case
Matching(all) == {k \in 1..Len(all) : Contains(lower(all[k].name), lower(hloc.q))}

\* the j-th smallest member of a set of positions
Nth(idx, j) == CHOOSE k \in idx : Cardinality({m \in idx : m <= k}) = j

SearchDone == Responded({"search"}) /\ resp.status = 200

\* C13: with a path, the results of /search are exactly the listed items whose
\* name contains the (trimmed) q case-insensitively, each once and in the
\* order of the concatenated listing; without a path they are all the items of
\* the remote search response in its order.
C13_SearchOrder ==
    SearchDone =>
        IF hloc.path # <<>>
        THEN LET all == Concat(served)
                 idx == Matching(all)
             IN  /\ Len(resp.items) = Cardinality(idx)
                 /\ \A j \in 1..Len(resp.items) :
                       LET it == all[Nth(idx, j)] IN
                       /\ resp.items[j].id = it.id
                       /\ resp.items[j].name = it.name
                       /\ resp.items[j].type = IF it.folder THEN "folder" ELSE "file"
        ELSE /\ Len(resp.items) = Len(hstat.found)
             /\ \A j \in 1..Len(resp.items) :
                   /\ resp.items[j].id = hstat.found[j].id
                   /\ resp.items[j].name = hstat.found[j].name

\* /search?q=dP with a path: two pages listed, the item named "Dpr" of each is
\* returned and the item named "x" between them is not
C13_Witness ==
    /\ SearchDone
    /\ hloc.path # <<>>
    /\ hloc.q = <<"d", "P">>
    /\ Len(served) = 2
    /\ Len(Concat(served)) = 3
    /\ Len(resp.items) = 2

\* the lines of a .docx document: its paragraphs, then one line per table row
\* with the texts of the cells of the row joined by tabs
DocxLines(c) ==
    c.paras \o [k \in 1..Len(c.rows) |-> Join(c.rows[k], "\t")]

\* C14: the text extracted from a .docx document is one line per paragraph and
\* one line per table row (its cells joined by tabs), joined by newlines: a
\* paragraph and a 2x2 table give "Hi\na\tb\nc\td".
C14_DocxExtraction ==
    (ReadDone /\ resp.status = 200 /\ endswith(lower(hloc.name), <<".", "d", "o", "c", "x">>)) =>
        resp.text = Join(DocxLines(hloc.content), "\n")

\* the request waits for an upstream call
Waiting == hpc \notin {"idle", "responded"}

\* the page just received names, as its continuation, a url already asked
LinkedBack ==
    /\ hpc = "list"
    /\ gpc = "returned"
    /\ g_r.status = 200
    /\ g_r.body.next # Absent
    /\ g_r.body.next <= hloc.next_url

Rejected == {400, 401, 403}

\* a rejected request has reached nothing upstream, and a key that differs
\* from API_KEY is refused whatever the input is
C16_Inv ==
    Responded(GuardedRoutes) =>
        /\ resp.status \in Rejected => ~hstat.upstream
        /\ req.key # API_KEY => resp.status \in {401, 403}

\* a rejection is the first and only step of its request and leaves the two
\* caches as they were
C16_Step ==
    (hpc' = "responded" /\ req'.route \in GuardedRoutes /\ resp'.status \in Rejected) =>
        /\ hpc = "idle"
        /\ token_cache' = token_cache
        /\ drive_cache' = drive_cache
        /\ gpc' = "idle"
        /\ \A t \in Threads : tpc'[t] = "idle"

\* C16: a request answered 401/403 (key) or 400 (input missing after
\* trimming) makes no call to the identity provider or the drive API and
\* changes neither _token_cache nor _drive_cache; the key is checked before
\* the input, the input before the first upstream call.
C16_RejectedNoUpstream == []C16_Inv /\ [][C16_Step]_vars

\* /search with a blank q is answered 400 while a token and a drive id are
\* cached
C16_Witness ==
    /\ Responded({"search"})
    /\ resp.status = 400
    /\ hstat.arg = <<" ">>
    /\ token_cache.access_token # None
    /\ drive_cache = DRIVE_ID

Raised(t) == tpc[t] = "done" /\ tcall[t].kind = "raised"

\* a call that raised went to the identity provider, hands no token over and
\* leaves the cache as stale as it found it
C17_Inv ==
    \A t \in Threads :
        Raised(t) =>
            /\ tcall[t].called
            /\ tcall[t].tok = None
            /\ StaleAt(tnow[t])

\* no step of a call on its way to raising writes to the cache: not the test
\* of line 28, not the failing POST of lines 37-40
C17_Step ==
    \A t \in Threads :
        /\ (tpc[t] # "done" /\ tpc'[t] = "done" /\ tcall'[t].kind = "raised") =>
              /\ tpc[t] = "post"
              /\ token_cache' = token_cache
        /\ (tpc[t] \in {"idle", "check_token", "check_exp"}
              /\ tpc'[t] \in {"check_token", "check_exp", "post"}) =>
              token_cache' = token_cache

\* C17: when get_graph_token needs a refresh and the call to the identity
\* provider fails (network error, non-2xx status, no access_token in the
\* answer) the call raises and both fields of _token_cache keep the values
\* they had before the call, so the next call refreshes again and a cached
\* token never gets a new expiry.
C17_FailedRefreshKeepsCache == []C17_Inv /\ [][C17_Step]_vars

\* the refresh of a cached token that is about to expire has failed for want
\* of an access_token in the answer
C17_Witness ==
    \E t \in Threads :
        /\ Raised(t)
        /\ tcall[t].err = "KeyError"
        /\ token_cache.access_token # None
        /\ clock > token_cache.access_token.iss

\* the routes that call get_user_drive_id
DriveRoutes == {"debug_drive", "debug_list", "search", "read"}

Cached == drive_cache # NoneStr /\ drive_cache # <<>>

\* no lookup is in progress while an id is cached, and what get_user_drive_id
\* has returned to a route is the cached id
C18_Inv ==
    /\ hpc = "drive" => ~Cached
    /\ (req.route \in DriveRoutes /\ hpc \in {"list", "search", "meta", "content"}) =>
          hloc.did = drive_cache
    /\ (Responded({"debug_drive"}) /\ resp.status = 200) => resp.did = drive_cache

\* a cached id stays; a request looks the id up exactly when none is cached;
\* a lookup that raises or brings no id leaves the cache empty
C18_Step ==
    /\ Cached => drive_cache' = drive_cache
    /\ (hpc = "idle" /\ req'.route \in DriveRoutes /\ hpc' \notin {"idle", "responded"}) =>
          (hpc' = "drive" <=> ~Cached)
    /\ (hpc = "drive" /\ hpc' # "drive") =>
          IF gres.kind = "response" /\ gres.response.status = 200
             /\ gres.response.body.kind = "json"
          THEN drive_cache' = gres.response.body.id
          ELSE drive_cache' = drive_cache /\ ~Cached

\* C18: once get_user_drive_id has cached a non-empty drive id, every later
\* call returns that id without an upstream call and the cached id never
\* changes; a lookup that fails or brings no id leaves the cache empty, so the
\* next call looks the id up again.
C18_DriveIdCache == []C18_Inv /\ [][C18_Step]_vars

\* /debug/drive answered with the cached id, nothing upstream having been
\* reached by the request
C18_Witness ==
    /\ Responded({"debug_drive"})
    /\ resp.status = 200
    /\ resp.did = <<"b", "!">>
    /\ ~hstat.upstream

====
